---------------------------- MODULE Spec2Model ----------------------------
(***************************************************************************)
(* A model of package goerr: the Error type (error.go), its constructors  *)
(* and With* setters, the line assembly of ErrorLines, the option-line    *)
(* renderer optionLines, and the attribute resolvers ExitCode / Temporary *)
(* (unwrap.go).                                                            *)
(*                                                                         *)
(* Go values are represented as follows.                                   *)
(*   string            a TLA+ string                                       *)
(*   []string          a sequence of strings                               *)
(*   *Error            a record; NilError is the nil pointer               *)
(*   error (interface) a wrap chain: the sequence of the nodes met by      *)
(*                     following Unwrap, <<>> being the nil interface      *)
(*   a panic           the field panic of an operation's result            *)
(***************************************************************************)
EXTENDS Integers, Sequences, FiniteSets, TLC

VARIABLES
    e,             \* the *Error the caller holds (NilError or the struct)
    ctor,          \* history: the constructor call that made e
    out,           \* what the caller's last observer call returned
    lastExitCode,  \* history: <<c>>, c the argument of the last WithExitCode
    lastTemporary, \* history: <<t>>, t the argument of the last WithTemporary
    calls,         \* history: the line-appending calls made, in call order
    shared,        \* concurrent readers: the Error both goroutines read
    pc,            \* concurrent readers: each goroutine's position
    loc,           \* concurrent readers: each goroutine's locals
    ret            \* concurrent readers: the lines each goroutine returned

vars == <<e, ctor, out, lastExitCode, lastTemporary, calls, shared, pc, loc, ret>>

(***************************************************************************)
(* Bounds of the model.                                                    *)
(***************************************************************************)
MaxDepth == 2

MaxOptions == 2

MaxComments == 2

MaxSortComments == 7

MaxSharedComments == 2

MaxLineCalls == 3

MaxNilCalls == 2

(***************************************************************************)
(* The Error struct and the error values the callers pass in.              *)
(***************************************************************************)
NilError == [nil |-> TRUE]

ZeroError ==
    [nil |-> FALSE,
     optionComments |-> <<>>,
     options |-> <<>>,
     beforeMessage |-> <<>>,
     betweenMessageAndOptions |-> <<>>,
     afterOptions |-> <<>>,
     err |-> <<>>,
     msg |-> "",
     exitCode |-> 0,
     isExitCodeSet |-> FALSE,
     temporary |-> FALSE,
     isTemporarySet |-> FALSE]

\* A foreign error: which of ExitCode(), Temporary() and Unwrap() its type
\* has, and what the first two return.
ForeignNode(hasExitCode, code, hasTemporary, temp, hasUnwrap, text) ==
    [kind |-> "foreign",
     hasExitCode |-> hasExitCode, exitCode |-> code,
     hasTemporary |-> hasTemporary, temporary |-> temp,
     hasUnwrap |-> hasUnwrap, text |-> text]

dummyExitCoder(code) == ForeignNode(TRUE, code, FALSE, FALSE, FALSE, "x")

dummyTemporaryer(temp) == ForeignNode(FALSE, 0, TRUE, temp, FALSE, "t")

dummyUnwrapper == ForeignNode(FALSE, 0, FALSE, FALSE, TRUE, "u")

\* errors.New / fmt.Errorf: no capability at all.
plainError == ForeignNode(FALSE, 0, FALSE, FALSE, FALSE, "p")

\* A non-nil *Error met inside a chain: the fields the resolvers read.
ErrorNode(s) ==
    [kind |-> "Error",
     exitCode |-> s.exitCode, isExitCodeSet |-> s.isExitCodeSet,
     temporary |-> s.temporary, isTemporarySet |-> s.isTemporarySet,
     msg |-> s.msg]

\* A nil *Error stored in an error interface.
NilErrorNode == [kind |-> "nilError"]

\* The error interface value holding the *Error p and what it wraps.
AsError(p) == IF p.nil THEN <<NilErrorNode>> ELSE <<ErrorNode(p)>> \o p.err

\* Whether following Unwrap from this node can lead anywhere.
HasUnwrap(n) ==
    CASE n.kind = "Error" -> TRUE
      [] n.kind = "nilError" -> FALSE
      [] OTHER -> n.hasUnwrap

\* A type with ExitCode() and Unwrap(), and one with Temporary() and Unwrap().
exitCoderUnwrapper(code) == ForeignNode(TRUE, code, FALSE, FALSE, TRUE, "xu")

temporaryerUnwrapper(temp) == ForeignNode(FALSE, 0, TRUE, temp, TRUE, "tu")

ForeignNodes ==
    { plainError, dummyUnwrapper, dummyExitCoder(42), dummyTemporaryer(TRUE),
      exitCoderUnwrapper(0), temporaryerUnwrapper(FALSE) }

ErrorNodes ==
    { ErrorNode(ZeroError),
      ErrorNode([ZeroError EXCEPT !.exitCode = 7, !.isExitCodeSet = TRUE,
                                  !.temporary = TRUE, !.isTemporarySet = TRUE]) }

Nodes == ForeignNodes \cup ErrorNodes \cup {NilErrorNode}

\* The acyclic wrap chains of at most d nodes. A node without Unwrap ends
\* its chain.
RECURSIVE Chains(_)
Chains(d) ==
    IF d = 0 THEN {<<>>}
    ELSE {<<>>}
         \cup { <<n>> : n \in Nodes }
         \cup { <<n>> \o c : n \in {m \in Nodes : HasUnwrap(m)},
                             c \in Chains(d - 1) \ {<<>>} }

Errs == Chains(MaxDepth)

Codes == {0, 13}

Messages == {"", "M"}

\* The sequences over S of at most n elements.
RECURSIVE SeqsUpTo(_, _)
SeqsUpTo(S, n) ==
    IF n = 0 THEN {<<>>}
    ELSE LET shorter == SeqsUpTo(S, n - 1)
         IN  shorter \cup { Append(q, x) : q \in shorter, x \in S }

\* Option tokens of 0, 1 and 2 characters, and the lists of them.
Tokens == {"", "a", "bc"}

OptionLists == SeqsUpTo(Tokens, MaxOptions)

\* Annotation indices: before the first token, on a token, past the last.
Indexes == (-1)..MaxOptions

Comments == {"x", "y"}

\* What the single-line and the multi-line setters are given.
LineTexts == {"L0", "L1"}

LineLists == {<<"L2", "L3">>}

\* Comments that tell the annotations of one Error apart: the k-th
\* WithOptionComment call is given the k-th name.
CommentNames ==
    <<"c1", "c2", "c3", "c4", "c5", "c6", "c7", "c8", "c9", "c10", "c11", "c12">>


(***************************************************************************)
(* unwrap.go: the attribute resolvers. Each returns <<value, found>>.      *)
(***************************************************************************)
\* Mutant: the Unwrap case tried before the ExitCode case.
RECURSIVE unwrapExitCode_UnwrapFirst(_)
unwrapExitCode_UnwrapFirst(err) ==
    IF err = <<>> THEN <<0, FALSE>>
    ELSE LET tv == Head(err) IN
         CASE tv.kind = "nilError" -> <<0, FALSE>>
           [] tv.kind = "Error" -> <<tv.exitCode, tv.isExitCodeSet>>
           [] tv.kind = "foreign" /\ tv.hasUnwrap ->
                unwrapExitCode_UnwrapFirst(Tail(err))
           [] tv.kind = "foreign" /\ ~tv.hasUnwrap /\ tv.hasExitCode ->
                <<tv.exitCode, TRUE>>
           [] OTHER -> <<0, FALSE>>

RECURSIVE unwrapExitCode(_)
unwrapExitCode(err) ==
    IF err = <<>> THEN <<0, FALSE>>
    ELSE LET tv == Head(err) IN
         CASE tv.kind = "nilError" -> <<0, FALSE>>
           [] tv.kind = "Error" -> <<tv.exitCode, tv.isExitCodeSet>>
           [] tv.kind = "foreign" /\ tv.hasExitCode -> <<tv.exitCode, TRUE>>
           [] tv.kind = "foreign" /\ ~tv.hasExitCode /\ tv.hasUnwrap ->
                unwrapExitCode(Tail(err))
           [] OTHER -> <<0, FALSE>>

RECURSIVE unwrapTemporary(_)
unwrapTemporary(err) ==
    IF err = <<>> THEN <<FALSE, FALSE>>
    ELSE LET tv == Head(err) IN
         CASE tv.kind = "nilError" -> <<FALSE, FALSE>>
           [] tv.kind = "Error" -> <<tv.temporary, tv.isTemporarySet>>
           [] tv.kind = "foreign" /\ tv.hasTemporary -> <<tv.temporary, TRUE>>
           [] tv.kind = "foreign" /\ ~tv.hasTemporary /\ tv.hasUnwrap ->
                unwrapTemporary(Tail(err))
           [] OTHER -> <<FALSE, FALSE>>

ExitCode(err) == unwrapExitCode(err)[1]

Temporary(err) == unwrapTemporary(err)[1]

(***************************************************************************)
(* error.go: the methods ExitCode and Temporary of the struct s.           *)
(***************************************************************************)
ErrorExitCode(s) == IF s.isExitCodeSet THEN s.exitCode ELSE ExitCode(s.err)

ErrorTemporary(s) == IF s.isTemporarySet THEN s.temporary ELSE Temporary(s.err)

(***************************************************************************)
(* error.go: constructors. A constructor starts a new value, so the        *)
(* histories start again with it.                                          *)
(***************************************************************************)
Fresh(p, how) ==
    /\ e' = p
    /\ ctor' = how
    /\ out' = [op |-> "none"]
    /\ lastExitCode' = <<>>
    /\ lastTemporary' = <<>>
    /\ calls' = <<>>
    /\ UNCHANGED <<shared, pc, loc, ret>>

\* Mutant: the nil check left out.
MaybeWrap_NoNilCheck(err) ==
    Fresh([ZeroError EXCEPT !.err = err],
          IF err = <<>> THEN "MaybeWrap(nil)" ELSE "MaybeWrap")

MaybeWrap(err) ==
    IF err = <<>>
    THEN Fresh(NilError, "MaybeWrap(nil)")
    ELSE Fresh([ZeroError EXCEPT !.err = err], "MaybeWrap")

New(msg) == Fresh([ZeroError EXCEPT !.msg = msg], "New")

\* var ee goerr.Error / new(goerr.Error): the zero value.
Zero == Fresh(ZeroError, "Zero")

(***************************************************************************)
(* error.go: the setters. On a nil receiver each returns nil and touches   *)
(* nothing. The histories record the call whatever the receiver.           *)
(***************************************************************************)
Set(p) ==
    /\ e' = p
    /\ out' = [op |-> "none"]
    /\ UNCHANGED <<ctor, shared, pc, loc, ret>>

\* Mutant: a zero code taken for "no code given".
WithExitCode_SkipZero(code) ==
    /\ IF e.nil \/ code = 0
       THEN Set(e)
       ELSE Set([e EXCEPT !.isExitCodeSet = TRUE, !.exitCode = code])
    /\ lastExitCode' = <<code>>
    /\ UNCHANGED <<lastTemporary, calls>>

WithExitCode(code) ==
    /\ IF e.nil
       THEN Set(e)
       ELSE Set([e EXCEPT !.isExitCodeSet = TRUE, !.exitCode = code])
    /\ lastExitCode' = <<code>>
    /\ UNCHANGED <<lastTemporary, calls>>

WithTemporary(temporary) ==
    /\ IF e.nil
       THEN Set(e)
       ELSE Set([e EXCEPT !.isTemporarySet = TRUE, !.temporary = temporary])
    /\ lastTemporary' = <<temporary>>
    /\ UNCHANGED <<lastExitCode, calls>>

WithMessage(msg) ==
    /\ IF e.nil
       THEN Set(e)
       ELSE Set([e EXCEPT !.msg = msg])
    /\ UNCHANGED <<lastExitCode, lastTemporary, calls>>

\* Mutant: the wrap target kept once it is set.
WithWrap_KeepFirst(err) ==
    /\ IF e.nil \/ e.err # <<>>
       THEN Set(e)
       ELSE Set([e EXCEPT !.err = err])
    /\ UNCHANGED <<lastExitCode, lastTemporary, calls>>

WithWrap(err) ==
    /\ IF e.nil
       THEN Set(e)
       ELSE Set([e EXCEPT !.err = err])
    /\ UNCHANGED <<lastExitCode, lastTemporary, calls>>

\* The method Unwrap of the struct s.
Unwrap(s) == s.err

WithOptions(options) ==
    /\ IF e.nil
       THEN Set(e)
       ELSE Set([e EXCEPT !.options = options])
    /\ UNCHANGED <<lastExitCode, lastTemporary, calls>>

WithOptionComment(index, comment) ==
    /\ IF e.nil
       THEN Set(e)
       ELSE Set([e EXCEPT !.optionComments =
                    Append(@, [comment |-> comment, index |-> index])])
    /\ calls' = Append(calls, [op |-> "WithOptionComment",
                               index |-> index, comment |-> comment])
    /\ UNCHANGED <<lastExitCode, lastTemporary>>

\* Mutant: the new lines put in front of the group.
AppendLines_Prepend(group, lines) ==
    /\ IF e.nil
       THEN Set(e)
       ELSE CASE group = "beforeMessage" ->
                   Set([e EXCEPT !.beforeMessage = lines \o @])
              [] group = "betweenMessageAndOptions" ->
                   Set([e EXCEPT !.betweenMessageAndOptions = lines \o @])
              [] group = "afterOptions" ->
                   Set([e EXCEPT !.afterOptions = lines \o @])
    /\ calls' = Append(calls, [op |-> group, lines |-> lines])
    /\ UNCHANGED <<lastExitCode, lastTemporary>>

\* The six line-appending setters: group names the field; the single-line
\* variants append <<line>>.
AppendLines(group, lines) ==
    /\ IF e.nil
       THEN Set(e)
       ELSE CASE group = "beforeMessage" ->
                   Set([e EXCEPT !.beforeMessage = @ \o lines])
              [] group = "betweenMessageAndOptions" ->
                   Set([e EXCEPT !.betweenMessageAndOptions = @ \o lines])
              [] group = "afterOptions" ->
                   Set([e EXCEPT !.afterOptions = @ \o lines])
    /\ calls' = Append(calls, [op |-> group, lines |-> lines])
    /\ UNCHANGED <<lastExitCode, lastTemporary>>

WithLineBeforeMessage(line) == AppendLines("beforeMessage", <<line>>)

WithLinesBeforeMessage(lines) == AppendLines("beforeMessage", lines)

WithLineBetweenMessageAndOption(line) ==
    AppendLines("betweenMessageAndOptions", <<line>>)

WithLinesBetweenMessageAndOption(lines) ==
    AppendLines("betweenMessageAndOptions", lines)

WithLineAfterOptions(line) == AppendLines("afterOptions", <<line>>)

WithLinesAfterOptions(lines) == AppendLines("afterOptions", lines)

(***************************************************************************)
(* Strings. strings.Repeat panics on a negative count; Repeat is applied   *)
(* to counts >= 0 only, and the callers model the panic.                   *)
(***************************************************************************)
RECURSIVE Repeat(_, _)
Repeat(s, count) == IF count <= 0 THEN "" ELSE s \o Repeat(s, count - 1)

RECURSIVE Join(_, _)
Join(elems, sep) ==
    IF elems = <<>> THEN ""
    ELSE IF Len(elems) = 1 THEN elems[1]
    ELSE elems[1] \o sep \o Join(Tail(elems), sep)

(***************************************************************************)
(* sort.Sort(optionCommentSlice(ocs)): Less(i, j) is x[i].index >           *)
(* x[j].index. Up to 12 elements the library runs insertionSort, which up  *)
(* to Go 1.18 is preceded by one ShellSort pass with gap 6. The toolchain  *)
(* is the caller's: tc is "pdqsort" (Go 1.19 on) or "quickSort" (Go 1.18). *)
(* Sequences are 1-based here, slices 0-based in the library.              *)
(***************************************************************************)
Less(x, i, j) == x[i].index > x[j].index

Swap(x, i, j) == [x EXCEPT ![i] = x[j], ![j] = x[i]]

\* for j := i; j > a && data.Less(j, j-1); j-- { data.Swap(j, j-1) }
RECURSIVE sink(_, _)
sink(x, j) ==
    IF j > 1 /\ Less(x, j, j - 1) THEN sink(Swap(x, j, j - 1), j - 1) ELSE x

\* for i := a + 1; i < b; i++ { ... }
RECURSIVE insertionSortFrom(_, _)
insertionSortFrom(x, i) ==
    IF i > Len(x) THEN x ELSE insertionSortFrom(sink(x, i), i + 1)

insertionSort(x) == insertionSortFrom(x, 2)

\* for i := a + 6; i < b; i++ { if data.Less(i, i-6) { data.Swap(i, i-6) } }
RECURSIVE shellPassFrom(_, _)
shellPassFrom(x, i) ==
    IF i > Len(x) THEN x
    ELSE shellPassFrom(IF Less(x, i, i - 6) THEN Swap(x, i, i - 6) ELSE x, i + 1)

Toolchains == {"pdqsort", "quickSort"}

sortSort(x, tc) ==
    IF tc = "quickSort" THEN insertionSort(shellPassFrom(x, 7)) ELSE insertionSort(x)

(***************************************************************************)
(* error.go: optionLines. The result is [panic, lines, ocs]: whether the   *)
(* call panicked, the lines it returned, and the caller's annotation       *)
(* slice afterwards, which it sorts in place (ocs shares the backing array *)
(* of e.optionComments).                                                   *)
(***************************************************************************)
\* indices, 0-based in the code: Indices(opts)[k + 1] is indices[k].
RECURSIVE Indices(_)
Indices(opts) ==
    IF opts = <<>> THEN <<0>>
    ELSE LET front == Indices(SubSeq(opts, 1, Len(opts) - 1))
         IN  Append(front, front[Len(front)] + Len(opts[Len(opts)]) + 1)

\* Mutant: the marker drawn right after the last character.
PastEndLine_NoGap(length, oc) == Repeat(" ", length - 1) \o "^ " \o oc.comment

PastEndLine(length, oc) == Repeat(" ", length) \o "^ " \o oc.comment

\* The tilde count of the annotation on token oc.index.
TildeCount(opts, oc) ==
    LET indices == Indices(opts)
        length == indices[Len(opts) + 1]
    IN  IF oc.index = Len(opts) - 1
        THEN (length - indices[oc.index + 1]) - 2
        ELSE indices[oc.index + 2] - indices[oc.index + 1] - 2

\* Mutant: the underline one column short.
TokenLine_Short(opts, oc) ==
    Repeat(" ", Indices(opts)[oc.index + 1]) \o "^"
        \o Repeat("~", TildeCount(opts, oc) - 1) \o " " \o oc.comment

TokenLine(opts, oc) ==
    Repeat(" ", Indices(opts)[oc.index + 1]) \o "^"
        \o Repeat("~", TildeCount(opts, oc)) \o " " \o oc.comment

OutOfRange(opts, oc) == oc.index < 0 \/ oc.index >= Len(opts)

\* Whether the loop body panics on oc: strings.Repeat with a negative count.
CommentPanics(opts, oc) == ~OutOfRange(opts, oc) /\ TildeCount(opts, oc) < 0

CommentLine(opts, oc) ==
    IF OutOfRange(opts, oc)
    THEN PastEndLine(Indices(opts)[Len(opts) + 1], oc)
    ELSE TokenLine(opts, oc)

\* Mutant: the renderer without its early return on an empty token list.
optionLines_NoEmptyCheck(opts, ocs, tc) ==
    IF Len(ocs) = 0
    THEN [panic |-> FALSE, lines |-> <<Join(opts, " ")>>, ocs |-> ocs]
    ELSE LET sorted == sortSort(ocs, tc) IN
         IF \E k \in 1..Len(sorted) : CommentPanics(opts, sorted[k])
         THEN [panic |-> TRUE, lines |-> <<>>, ocs |-> sorted]
         ELSE [panic |-> FALSE,
               lines |-> <<Join(opts, " ")>>
                         \o [k \in 1..Len(sorted) |-> CommentLine(opts, sorted[k])],
               ocs |-> sorted]

optionLines(opts, ocs, tc) ==
    IF Len(opts) = 0 THEN [panic |-> FALSE, lines |-> <<>>, ocs |-> ocs]
    ELSE IF Len(ocs) = 0
    THEN [panic |-> FALSE, lines |-> <<Join(opts, " ")>>, ocs |-> ocs]
    ELSE LET sorted == sortSort(ocs, tc) IN
         IF \E k \in 1..Len(sorted) : CommentPanics(opts, sorted[k])
         THEN [panic |-> TRUE, lines |-> <<>>, ocs |-> sorted]
         ELSE [panic |-> FALSE,
               lines |-> <<Join(opts, " ")>>
                         \o [k \in 1..Len(sorted) |-> CommentLine(opts, sorted[k])],
               ocs |-> sorted]

(***************************************************************************)
(* error.go: Error() of a wrapped error, and ErrorLines.                   *)
(***************************************************************************)
\* err.Error() for a non-nil err: [panic, text]. A foreign error returns its
\* text; an *Error its message line (the wrapped *Error of the model carries
\* no other line); a nil *Error is dereferenced by the value receiver.
RECURSIVE ErrorText(_)
ErrorText(err) ==
    LET tv == Head(err) IN
    CASE tv.kind = "nilError" -> [panic |-> TRUE, text |-> ""]
      [] tv.kind = "foreign" -> [panic |-> FALSE, text |-> tv.text]
      [] OTHER ->
           IF Tail(err) = <<>>
           THEN [panic |-> FALSE,
                 text |-> IF tv.msg # "" THEN tv.msg
                          ELSE "error without message or wrapped error"]
           ELSE LET in == ErrorText(Tail(err)) IN
                [panic |-> in.panic,
                 text |-> IF tv.msg # "" THEN tv.msg \o ": " \o in.text ELSE in.text]

\* Mutant: no placeholder when neither a message nor a wrapped error is set.
MessageLine_NoPlaceholder(s) ==
    IF s.msg # ""
    THEN IF s.err # <<>>
         THEN LET in == ErrorText(s.err) IN
              [panic |-> in.panic, text |-> s.msg \o ": " \o in.text]
         ELSE [panic |-> FALSE, text |-> s.msg]
    ELSE IF s.err # <<>>
         THEN ErrorText(s.err)
         ELSE [panic |-> FALSE, text |-> ""]

\* error.go: the message line of ErrorLines, by its four cases.
MessageLine(s) ==
    IF s.msg # ""
    THEN IF s.err # <<>>
         THEN LET in == ErrorText(s.err) IN
              [panic |-> in.panic, text |-> s.msg \o ": " \o in.text]
         ELSE [panic |-> FALSE, text |-> s.msg]
    ELSE IF s.err # <<>>
         THEN ErrorText(s.err)
         ELSE [panic |-> FALSE, text |-> "error without message or wrapped error"]

\* ErrorLines on the struct s: [panic, lines, ocs].
ErrorLinesOf(s, tc) ==
    LET m == MessageLine(s) IN
    IF m.panic THEN [panic |-> TRUE, lines |-> <<>>, ocs |-> s.optionComments]
    ELSE LET o == optionLines(s.options, s.optionComments, tc) IN
         [panic |-> o.panic,
          lines |-> IF o.panic THEN <<>>
                    ELSE s.beforeMessage \o <<m.text>> \o s.betweenMessageAndOptions
                         \o o.lines \o s.afterOptions,
          ocs |-> o.ocs]

ErrorLines ==
    /\ ~e.nil
    /\ \E tc \in Toolchains :
         LET r == ErrorLinesOf(e, tc) IN
         /\ e' = [e EXCEPT !.optionComments = r.ocs]
         /\ out' = [op |-> "ErrorLines", panic |-> r.panic, lines |-> r.lines]
    /\ UNCHANGED <<ctor, lastExitCode, lastTemporary, calls, shared, pc, loc, ret>>

(***************************************************************************)
(* The caller reads an attribute with the free function, of the value it   *)
(* holds or of the error that value wraps.                                 *)
(***************************************************************************)
Observe(r) ==
    /\ out' = r
    /\ UNCHANGED <<e, ctor, lastExitCode, lastTemporary, calls, shared, pc, loc, ret>>

CallExitCode ==
    \E arg \in {AsError(e)} \cup (IF e.nil THEN {<<>>} ELSE {e.err}) :
        Observe([op |-> "ExitCode", arg |-> arg, ret |-> ExitCode(arg)])

CallTemporary ==
    \E arg \in {AsError(e)} \cup (IF e.nil THEN {<<>>} ELSE {e.err}) :
        Observe([op |-> "Temporary", arg |-> arg, ret |-> Temporary(arg)])

\* The caller asks a non-nil Error what it wraps.
CallUnwrap ==
    /\ ~e.nil
    /\ Observe([op |-> "Unwrap", ret |-> Unwrap(e)])

(***************************************************************************)
(* Spec: one caller building an Error and resolving its attributes.        *)
(***************************************************************************)
Init ==
    /\ e = NilError
    /\ ctor = "none"
    /\ out = [op |-> "none"]
    /\ lastExitCode = <<>>
    /\ lastTemporary = <<>>
    /\ calls = <<>>
    /\ shared = NilError
    /\ pc = <<>>
    /\ loc = <<>>
    /\ ret = <<>>

\* The setters that do not bear on the attributes, on a nil receiver.
OnNil ==
    /\ e.nil
    /\ Len(calls) < MaxNilCalls
    /\ \/ WithMessage("M")
       \/ WithOptions(<<"a">>)
       \/ WithOptionComment(0, "x")
       \/ WithLineBeforeMessage("L0")
       \/ WithLinesBeforeMessage(<<"L2", "L3">>)
       \/ WithLineBetweenMessageAndOption("L0")
       \/ WithLinesBetweenMessageAndOption(<<"L2", "L3">>)
       \/ WithLineAfterOptions("L0")
       \/ WithLinesAfterOptions(<<"L2", "L3">>)

Next ==
    \/ \E err \in Errs : MaybeWrap(err)
    \/ \E msg \in Messages : New(msg)
    \/ Zero
    \/ \E code \in Codes : WithExitCode(code)
    \/ \E temporary \in BOOLEAN : WithTemporary(temporary)
    \/ \E err \in Errs : WithWrap(err)
    \/ OnNil
    \/ CallExitCode
    \/ CallTemporary

Spec == Init /\ [][Next]_vars

(***************************************************************************)
(* SpecRender: one caller annotating options and rendering them.           *)
(***************************************************************************)
NextRender ==
    \/ \E msg \in Messages : New(msg)
    \/ \E options \in OptionLists : WithOptions(options)
    \/ \E index \in Indexes, comment \in Comments :
         Len(calls) < MaxComments /\ WithOptionComment(index, comment)
    \/ ErrorLines

SpecRender == Init /\ [][NextRender]_vars

(***************************************************************************)
(* SpecSort: one caller annotating the two tokens of a fixed option list   *)
(* several times each, and rendering.                                      *)
(***************************************************************************)
NextSort ==
    \/ New("M")
    \/ WithOptions(<<"ab", "cd">>)
    \/ \E index \in {0, 1} :
         /\ Len(calls) < MaxSortComments
         /\ WithOptionComment(index, CommentNames[Len(calls) + 1])
    \/ ErrorLines

SpecSort == Init /\ [][NextSort]_vars

(***************************************************************************)
(* SpecReaders: two goroutines call ErrorLines on the same *Error, which   *)
(* no setter touches meanwhile. e is the Error as the caller built it,     *)
(* shared the struct the goroutines work on. The value receiver copies the *)
(* struct, slice headers included, so opts and the annotation count are    *)
(* each goroutine's own while the annotations are read and, by sort.Sort,  *)
(* swapped in the backing array of shared.optionComments. A step is one    *)
(* access to that array; up to 12 elements the sort is insertionSort.      *)
(***************************************************************************)
Goroutines == {1, 2}

SharedErrors ==
    { [ZeroError EXCEPT !.msg = "M", !.options = <<"a", "bc">>, !.optionComments = ocs] :
        ocs \in SeqsUpTo({ [comment |-> c, index |-> i] : c \in Comments, i \in {0, 1} },
                         MaxSharedComments) }

InitReaders ==
    /\ e \in SharedErrors
    /\ shared = e
    /\ ctor = "New"
    /\ out = [op |-> "none"]
    /\ lastExitCode = <<>>
    /\ lastTemporary = <<>>
    /\ calls = <<>>
    /\ pc = [t \in Goroutines |-> "start"]
    /\ loc = [t \in Goroutines |-> [lines |-> <<>>, n |-> 0, i |-> 0, j |-> 0, k |-> 0]]
    /\ ret = [t \in Goroutines |-> <<>>]

Step(t, at, lc) ==
    /\ pc' = [pc EXCEPT ![t] = at]
    /\ loc' = [loc EXCEPT ![t] = lc]
    /\ UNCHANGED <<e, ctor, out, lastExitCode, lastTemporary, calls>>

\* The lines up to the joined token line, and the copy of the slice header.
Start(t) ==
    /\ pc[t] = "start"
    /\ LET n == Len(shared.optionComments)
           lines == shared.beforeMessage \o <<MessageLine(shared).text>>
                    \o shared.betweenMessageAndOptions
                    \o <<Join(shared.options, " ")>>
       IN  IF n = 0
           THEN /\ Step(t, "done", [loc[t] EXCEPT !.lines = lines])
                /\ ret' = [ret EXCEPT ![t] = lines \o shared.afterOptions]
           ELSE /\ Step(t, IF n = 1 THEN "emit" ELSE "less",
                        [loc[t] EXCEPT !.lines = lines, !.n = n, !.i = 2, !.j = 2, !.k = 1])
                /\ UNCHANGED ret
    /\ UNCHANGED shared

\* j > a && data.Less(j, j-1), and the loop headers around it.
LessStep(t) ==
    /\ pc[t] = "less"
    /\ LET l == loc[t] IN
       IF l.j > 1 /\ Less(shared.optionComments, l.j, l.j - 1)
       THEN Step(t, "swapRead", l)
       ELSE IF l.i + 1 > l.n
            THEN Step(t, "emit", l)
            ELSE Step(t, "less", [l EXCEPT !.i = l.i + 1, !.j = l.i + 1])
    /\ UNCHANGED <<shared, ret>>

\* x[i], x[j] = x[j], x[i] with i, j := j, j-1: both operands are read,
SwapRead(t) ==
    /\ pc[t] = "swapRead"
    /\ Step(t, "swapWrite1",
            [lo |-> shared.optionComments[loc[t].j - 1],
             hi |-> shared.optionComments[loc[t].j]] @@ loc[t])
    /\ UNCHANGED <<shared, ret>>

\* then x[j] is assigned,
SwapWrite1(t) ==
    /\ pc[t] = "swapWrite1"
    /\ shared' = [shared EXCEPT !.optionComments[loc[t].j] = loc[t].lo]
    /\ Step(t, "swapWrite2", loc[t])
    /\ UNCHANGED ret

\* then x[j-1]; j--.
SwapWrite2(t) ==
    /\ pc[t] = "swapWrite2"
    /\ shared' = [shared EXCEPT !.optionComments[loc[t].j - 1] = loc[t].hi]
    /\ Step(t, "less", [k \in {"lines", "n", "i", "j", "k"} |->
                           IF k = "j" THEN loc[t].j - 1 ELSE loc[t][k]])
    /\ UNCHANGED ret

\* for _, oc := range ocs: one annotation is read and its line appended.
Emit(t) ==
    /\ pc[t] = "emit"
    /\ LET l == loc[t]
           oc == shared.optionComments[l.k]
       IN  IF CommentPanics(shared.options, oc)
           THEN Step(t, "panicked", l) /\ UNCHANGED ret
           ELSE LET lines == Append(l.lines, CommentLine(shared.options, oc)) IN
                IF l.k = l.n
                THEN /\ Step(t, "done", [l EXCEPT !.lines = lines])
                     /\ ret' = [ret EXCEPT ![t] = lines \o shared.afterOptions]
                ELSE /\ Step(t, "emit", [l EXCEPT !.lines = lines, !.k = l.k + 1])
                     /\ UNCHANGED ret
    /\ UNCHANGED shared

NextReaders ==
    \E t \in Goroutines :
        \/ Start(t)
        \/ LessStep(t)
        \/ SwapRead(t)
        \/ SwapWrite1(t)
        \/ SwapWrite2(t)
        \/ Emit(t)

SpecReaders == InitReaders /\ [][NextReaders]_vars

(***************************************************************************)
(* SpecLines: one caller appending lines to the three groups in any order, *)
(* with or without an annotated option, and rendering.                     *)
(***************************************************************************)
NextLines ==
    \/ \E msg \in Messages : New(msg)
    \/ MaybeWrap(<<plainError>>)
    \/ \E msg \in Messages : WithMessage(msg)
    \/ \E line \in LineTexts :
         Len(calls) < MaxLineCalls /\ WithLineBeforeMessage(line)
    \/ \E lines \in LineLists :
         Len(calls) < MaxLineCalls /\ WithLinesBeforeMessage(lines)
    \/ \E line \in LineTexts :
         Len(calls) < MaxLineCalls /\ WithLineBetweenMessageAndOption(line)
    \/ \E lines \in LineLists :
         Len(calls) < MaxLineCalls /\ WithLinesBetweenMessageAndOption(lines)
    \/ \E line \in LineTexts :
         Len(calls) < MaxLineCalls /\ WithLineAfterOptions(line)
    \/ \E lines \in LineLists :
         Len(calls) < MaxLineCalls /\ WithLinesAfterOptions(lines)
    \/ WithOptions(<<"a", "bc">>)
    \/ Len(calls) < MaxLineCalls /\ WithOptionComment(1, "x")
    \/ ErrorLines

SpecLines == Init /\ [][NextLines]_vars

(***************************************************************************)
(* SpecWrap: one caller making an Error, with or without a wrap target,    *)
(* and calling its setters, WithWrap among them, in any order.             *)
(***************************************************************************)
\* The errors given to MaybeWrap and WithWrap; <<>> is the nil error.
WrapTargets ==
    { <<>>, <<plainError>>, <<dummyExitCoder(42)>>,
      <<dummyUnwrapper, plainError>> }

NextWrap ==
    \/ \E err \in WrapTargets : MaybeWrap(err)
    \/ \E msg \in Messages : New(msg)
    \/ \E err \in WrapTargets : WithWrap(err)
    \/ \E code \in Codes : WithExitCode(code)
    \/ \E temporary \in BOOLEAN : WithTemporary(temporary)
    \/ \E msg \in Messages : WithMessage(msg)
    \/ \E options \in {<<>>, <<"a">>} : WithOptions(options)
    \/ \E line \in LineTexts :
         Len(calls) < MaxLineCalls /\ WithLineAfterOptions(line)
    \/ CallUnwrap

SpecWrap == Init /\ [][NextWrap]_vars

(***************************************************************************)
(* SpecWalk: the loop of unwrapExitCode / unwrapTemporary taken one        *)
(* iteration at a time on a wrap chain. loc.at is the place in loc.chain   *)
(* of the error the variable err holds; past the end, err is nil.          *)
(***************************************************************************)
Resolvers == {"unwrapExitCode", "unwrapTemporary"}

InitWalk ==
    /\ e = NilError
    /\ ctor = "none"
    /\ out = [op |-> "none"]
    /\ lastExitCode = <<>>
    /\ lastTemporary = <<>>
    /\ calls = <<>>
    /\ shared = NilError
    /\ pc = "for"
    /\ \E r \in Resolvers, c \in Errs :
         loc = [resolver |-> r, chain |-> c, at |-> 1, visited |-> <<>>,
                unwraps |-> 0]
    /\ ret = <<>>

\* The value of err: the chain from loc.at on.
CurrentErr == SubSeq(loc.chain, loc.at, Len(loc.chain))

\* The type switch of unwrapExitCode on err: what it returns, or that the
\* loop goes on with the unwrap target.
unwrapExitCodeCase(err) ==
    IF err = <<>> THEN [return |-> TRUE, ret |-> <<0, FALSE>>]
    ELSE LET tv == Head(err) IN
         CASE tv.kind = "nilError" -> [return |-> TRUE, ret |-> <<0, FALSE>>]
           [] tv.kind = "Error" ->
                [return |-> TRUE, ret |-> <<tv.exitCode, tv.isExitCodeSet>>]
           [] tv.kind = "foreign" /\ tv.hasExitCode ->
                [return |-> TRUE, ret |-> <<tv.exitCode, TRUE>>]
           [] tv.kind = "foreign" /\ ~tv.hasExitCode /\ tv.hasUnwrap ->
                [return |-> FALSE, ret |-> <<>>]
           [] OTHER -> [return |-> TRUE, ret |-> <<0, FALSE>>]

unwrapTemporaryCase(err) ==
    IF err = <<>> THEN [return |-> TRUE, ret |-> <<FALSE, FALSE>>]
    ELSE LET tv == Head(err) IN
         CASE tv.kind = "nilError" ->
                [return |-> TRUE, ret |-> <<FALSE, FALSE>>]
           [] tv.kind = "Error" ->
                [return |-> TRUE, ret |-> <<tv.temporary, tv.isTemporarySet>>]
           [] tv.kind = "foreign" /\ tv.hasTemporary ->
                [return |-> TRUE, ret |-> <<tv.temporary, TRUE>>]
           [] tv.kind = "foreign" /\ ~tv.hasTemporary /\ tv.hasUnwrap ->
                [return |-> FALSE, ret |-> <<>>]
           [] OTHER -> [return |-> TRUE, ret |-> <<FALSE, FALSE>>]

\* Mutant: Unwrap gives back the error it was called on.
UnwrapTarget_Self(at) == at

\* err = tv.Unwrap(): the next place in the chain.
UnwrapTarget(at) == at + 1

\* One iteration of the loop, sw being what the type switch does.
Iterate(sw) ==
    /\ pc = "for"
    /\ IF sw.return
       THEN /\ pc' = "return"
            /\ ret' = sw.ret
            /\ loc' = [loc EXCEPT !.visited = Append(@, loc.at)]
       ELSE /\ pc' = "for"
            /\ ret' = ret
            /\ loc' = [loc EXCEPT !.visited = Append(@, loc.at),
                                  !.at = UnwrapTarget(loc.at),
                                  !.unwraps = @ + 1]
    /\ UNCHANGED <<e, ctor, out, lastExitCode, lastTemporary, calls, shared>>

IterateExitCode ==
    /\ loc.resolver = "unwrapExitCode"
    /\ Iterate(unwrapExitCodeCase(CurrentErr))

IterateTemporary ==
    /\ loc.resolver = "unwrapTemporary"
    /\ Iterate(unwrapTemporaryCase(CurrentErr))

NextWalk == IterateExitCode \/ IterateTemporary

\* A call that has started runs on: nothing else is scheduled.
SpecWalk == InitWalk /\ [][NextWalk]_vars /\ WF_vars(NextWalk)

(***************************************************************************)
(* The value a chain of foreign errors declares: that of the first node,   *)
(* walking from the head through nodes that have Unwrap, whose type has    *)
(* the method; the zero value when the walk ends before such a node.       *)
(***************************************************************************)
IsForeignChain(c) == \A i \in 1..Len(c) : c[i].kind = "foreign"

Walked(c, has(_)) ==
    { i \in 1..Len(c) : \A j \in 1..(i - 1) : ~has(c[j]) /\ c[j].hasUnwrap }

DeclaredExitCode(c) ==
    LET has(n) == n.hasExitCode
        at == { i \in Walked(c, has) : has(c[i]) }
    IN  IF at = {} THEN 0 ELSE c[CHOOSE i \in at : TRUE].exitCode

DeclaredTemporary(c) ==
    LET has(n) == n.hasTemporary
        at == { i \in Walked(c, has) : has(c[i]) }
    IN  IF at = {} THEN FALSE ELSE c[CHOOSE i \in at : TRUE].temporary

(***************************************************************************)
(* C1: an *Error whose override flag for an attribute is unset resolves,   *)
(* through the free functions, to what its wrapped error resolves to, at   *)
(* any depth of the chain.                                                 *)
(***************************************************************************)
C1_UnsetDelegates ==
    /\ (out.op = "ExitCode" /\ out.arg # <<>> /\ Head(out.arg).kind = "Error"
            /\ ~Head(out.arg).isExitCodeSet)
         => out.ret = ExitCode(Tail(out.arg))
    /\ (out.op = "Temporary" /\ out.arg # <<>> /\ Head(out.arg).kind = "Error"
            /\ ~Head(out.arg).isTemporarySet)
         => out.ret = Temporary(Tail(out.arg))

(***************************************************************************)
(* C2: once WithExitCode (WithTemporary) has been called on an Error, the  *)
(* free function returns the argument of the most recent such call,        *)
(* whatever the wrapped chain resolves to, an explicit 0 / false included. *)
(***************************************************************************)
C2_OverrideWins ==
    /\ (out.op = "ExitCode" /\ ~e.nil /\ out.arg = AsError(e) /\ lastExitCode # <<>>)
         => out.ret = lastExitCode[1]
    /\ (out.op = "Temporary" /\ ~e.nil /\ out.arg = AsError(e) /\ lastTemporary # <<>>)
         => out.ret = lastTemporary[1]

\* An explicit 0 read back over a two-deep chain that resolves to 42.
C2_Witness ==
    /\ out.op = "ExitCode" /\ ~e.nil /\ out.arg = AsError(e)
    /\ lastExitCode = <<0>> /\ out.ret = 0
    /\ Len(e.err) = 2 /\ ExitCode(e.err) = 42

(***************************************************************************)
(* C3: on a chain of foreign errors only, the free functions return what   *)
(* the first node on the unwrap walk with the capability declares, without *)
(* unwrapping it even if it has Unwrap too, and 0 / false when the walk    *)
(* ends at nil or at a node with neither the capability nor Unwrap.        *)
(***************************************************************************)
C3_ForeignFirstWins ==
    /\ (out.op = "ExitCode" /\ IsForeignChain(out.arg))
         => out.ret = DeclaredExitCode(out.arg)
    /\ (out.op = "Temporary" /\ IsForeignChain(out.arg))
         => out.ret = DeclaredTemporary(out.arg)

\* A node with ExitCode() = 0 and Unwrap() leading to a node declaring 42.
C3_Witness ==
    /\ out.op = "ExitCode"
    /\ out.arg = <<exitCoderUnwrapper(0), dummyExitCoder(42)>>
    /\ out.ret = 0

(***************************************************************************)
(* C4: MaybeWrap(nil) is nil, every setter called on it leaves it nil, and *)
(* ExitCode / Temporary of it, as of the nil error, are 0 / false.         *)
(***************************************************************************)
C4_NilIsInert ==
    /\ ctor = "MaybeWrap(nil)" => e = NilError
    /\ (out.op = "ExitCode" /\ out.arg \in {<<>>, <<NilErrorNode>>}) => out.ret = 0
    /\ (out.op = "Temporary" /\ out.arg \in {<<>>, <<NilErrorNode>>}) => out.ret = FALSE
    /\ (out.op \in {"ExitCode", "Temporary"} /\ ctor = "MaybeWrap(nil)")
         => out.arg \in {<<>>, <<NilErrorNode>>}

\* MaybeWrap(nil).WithExitCode(13).WithTemporary(true), with line setters
\* called on it too, then ExitCode of it.
C4_Witness ==
    /\ ctor = "MaybeWrap(nil)" /\ e = NilError
    /\ Len(calls) = MaxNilCalls
    /\ calls[1].op = "WithOptionComment" /\ calls[2].op = "afterOptions"
    /\ lastExitCode = <<13>> /\ lastTemporary = <<TRUE>>
    /\ out.op = "ExitCode" /\ out.arg = <<NilErrorNode>> /\ out.ret = 0

(***************************************************************************)
(* The option lines of a completed ErrorLines call: those after the        *)
(* before-message lines, the message line and the between lines, and       *)
(* before the after-options lines. The first is the joined token line,     *)
(* the others are the annotation lines.                                    *)
(***************************************************************************)
Rendered == out.op = "ErrorLines" /\ ~out.panic /\ e.options # <<>>

OptionLinesOut ==
    SubSeq(out.lines,
           Len(e.beforeMessage) + 1 + Len(e.betweenMessageAndOptions) + 1,
           Len(out.lines) - Len(e.afterOptions))

AnnotationLinesOut == Tail(OptionLinesOut)

RECURSIVE SumLen(_)
SumLen(tokens) == IF tokens = <<>> THEN 0 ELSE Len(Head(tokens)) + SumLen(Tail(tokens))

\* The length of the tokens joined by single spaces.
JoinedLen(tokens) == SumLen(tokens) + (Len(tokens) - 1)

\* The column at which token i (0-based) starts in the joined line.
StartColumn(tokens, i) == SumLen(SubSeq(tokens, 1, i)) + i

InRange(a) == 0 <= a.index /\ a.index < Len(e.options)

\* spaces, a caret, tildes, a space and the comment.
Underline(spaces, tildes, comment) ==
    Repeat(" ", spaces) \o "^" \o Repeat("~", tildes) \o " " \o comment

(***************************************************************************)
(* C5: ErrorLines never fails, whatever the tokens and the annotation      *)
(* indices; a zero or negative tilde count renders as just the caret.      *)
(***************************************************************************)
C5_NeverFails ==
    out.op = "ErrorLines" =>
        /\ ~out.panic
        /\ \A k \in 1..Len(e.optionComments) :
             LET a == e.optionComments[k] IN
             (InRange(a) /\ Len(e.options[a.index + 1]) <= 1) =>
                \E j \in 1..Len(AnnotationLinesOut) :
                   AnnotationLinesOut[j] =
                      Underline(StartColumn(e.options, a.index), 0, a.comment)

(***************************************************************************)
(* C6 as stated: the line of an in-range annotation is spaces up to the    *)
(* token's start column, a caret, tokenWidth - 2 tildes, a space and the   *)
(* comment, tokenWidth being the distance to the next token's start, or    *)
(* for the last token the distance to the end of the joined line.          *)
(***************************************************************************)
TokenWidthToLineEnd(tokens, i) ==
    IF i = Len(tokens) - 1
    THEN JoinedLen(tokens) - StartColumn(tokens, i)
    ELSE StartColumn(tokens, i + 1) - StartColumn(tokens, i)

C6_Original ==
    Rendered =>
        \A k \in 1..Len(e.optionComments) :
           LET a == e.optionComments[k] IN
           InRange(a) =>
              \E j \in 1..Len(AnnotationLinesOut) :
                 AnnotationLinesOut[j] =
                    Underline(StartColumn(e.options, a.index),
                              TokenWidthToLineEnd(e.options, a.index) - 2,
                              a.comment)

(***************************************************************************)
(* C6 as amended: tokenWidth is the token's length plus one for every      *)
(* token, the last included (the distance from its start to one column     *)
(* past the end of the joined line), so that caret and tildes span the     *)
(* token; and the call completes exactly when no in-range annotation is on *)
(* an empty token (tokenWidth - 2 < 0).                                    *)
(***************************************************************************)
TokenWidth(tokens, i) == Len(tokens[i + 1]) + 1

C6_TokenUnderline ==
    (out.op = "ErrorLines" /\ e.options # <<>> /\ e.err = <<>>) =>
        /\ out.panic <=>
             \E k \in 1..Len(e.optionComments) :
                /\ InRange(e.optionComments[k])
                /\ TokenWidth(e.options, e.optionComments[k].index) - 2 < 0
        /\ ~out.panic =>
             \A k \in 1..Len(e.optionComments) :
                LET a == e.optionComments[k] IN
                InRange(a) =>
                   \E j \in 1..Len(AnnotationLinesOut) :
                      AnnotationLinesOut[j] =
                         Underline(StartColumn(e.options, a.index),
                                   TokenWidth(e.options, a.index) - 2,
                                   a.comment)

\* A two-character last token annotated and rendered: caret and one tilde.
C6_Witness ==
    /\ Rendered
    /\ e.options = <<"a", "bc">>
    /\ \E k \in 1..Len(e.optionComments) : e.optionComments[k].index = 1
    /\ \E j \in 1..Len(AnnotationLinesOut) : AnnotationLinesOut[j] = "  ^~ x"

(***************************************************************************)
(* C7 as stated: the line of an out-of-range annotation is as many spaces  *)
(* as the joined token line is long, then "^ " and the comment.            *)
(***************************************************************************)
C7_Original ==
    Rendered =>
        \A k \in 1..Len(e.optionComments) :
           LET a == e.optionComments[k] IN
           ~InRange(a) =>
              \E j \in 1..Len(AnnotationLinesOut) :
                 AnnotationLinesOut[j] =
                    Repeat(" ", JoinedLen(e.options)) \o "^ " \o a.comment

(***************************************************************************)
(* C7 as amended: the line of an out-of-range annotation is one space more *)
(* than the joined token line is long, then "^ " and the comment.          *)
(***************************************************************************)
C7_PastTheEnd ==
    Rendered =>
        \A k \in 1..Len(e.optionComments) :
           LET a == e.optionComments[k] IN
           ~InRange(a) =>
              \E j \in 1..Len(AnnotationLinesOut) :
                 AnnotationLinesOut[j] =
                    Repeat(" ", JoinedLen(e.options) + 1) \o "^ " \o a.comment

\* Index -1 and index len(tokens) both rendered under "a bc".
C7_Witness ==
    /\ Rendered
    /\ e.options = <<"a", "bc">>
    /\ {e.optionComments[k].index : k \in 1..Len(e.optionComments)} = {-1, 2}
    /\ AnnotationLinesOut = <<"     ^ x", "     ^ y">>

(***************************************************************************)
(* C8: with tokens, the option lines are the joined token line and then    *)
(* one line per annotation, by descending tokenIndex whatever the order of *)
(* the WithOptionComment calls, annotations of equal tokenIndex in the     *)
(* order of their calls.                                                   *)
(***************************************************************************)
\* The annotations given to e, in call order.
Annotated ==
    LET cs == SelectSeq(calls, LAMBDA c : c.op = "WithOptionComment")
    IN  [k \in 1..Len(cs) |-> [comment |-> cs[k].comment, index |-> cs[k].index]]

\* Those of s with index i, then those with i - 1, ... down to lo, each
\* group in the order of s.
RECURSIVE ByIndexDown(_, _, _)
ByIndexDown(s, i, lo) ==
    IF i < lo THEN <<>>
    ELSE SelectSeq(s, LAMBDA a : a.index = i) \o ByIndexDown(s, i - 1, lo)

StableDescending(s) ==
    LET is == { s[k].index : k \in 1..Len(s) }
    IN  IF is = {} THEN <<>>
        ELSE ByIndexDown(s, CHOOSE i \in is : \A j \in is : j <= i,
                            CHOOSE i \in is : \A j \in is : i <= j)

C8_StableDescending ==
    (Rendered /\ Len(e.optionComments) = Len(Annotated)) =>
        OptionLinesOut =
            <<Join(e.options, " ")>>
            \o [k \in 1..Len(Annotated) |->
                   CommentLine(e.options, StableDescending(Annotated)[k])]

(***************************************************************************)
(* C9: with no setter running, two goroutines calling ErrorLines on the    *)
(* same Error do not disturb each other: each returns the lines the call   *)
(* returns when run alone.                                                 *)
(***************************************************************************)
C9_ReadersSafe ==
    \A t \in Goroutines :
        pc[t] = "done" => ret[t] = ErrorLinesOf(e, "pdqsort").lines

(***************************************************************************)
(* C10: whatever the interleaving of the line-appending setters, the lines *)
(* of ErrorLines are the before-message lines, one message line, the       *)
(* between lines, the option renderer's lines and the after-options lines, *)
(* in this order, each group in the order its lines were appended.         *)
(***************************************************************************)
RECURSIVE Flatten(_)
Flatten(ss) == IF ss = <<>> THEN <<>> ELSE Head(ss).lines \o Flatten(Tail(ss))

\* The lines given to the setters of one group, in call order.
Appended(group) == Flatten(SelectSeq(calls, LAMBDA c : c.op = group))

C10_GroupOrder ==
    (out.op = "ErrorLines" /\ ~out.panic) =>
        LET before == Appended("beforeMessage")
            between == Appended("betweenMessageAndOptions")
            after == Appended("afterOptions")
            options == optionLines(e.options, e.optionComments, "pdqsort").lines
            n == Len(before)
        IN  /\ Len(out.lines) = n + 1 + Len(between) + Len(options) + Len(after)
            /\ SubSeq(out.lines, 1, n) = before
            /\ SubSeq(out.lines, n + 2, n + 1 + Len(between)) = between
            /\ SubSeq(out.lines, n + 2 + Len(between),
                      n + 1 + Len(between) + Len(options)) = options
            /\ SubSeq(out.lines, n + 2 + Len(between) + Len(options),
                      Len(out.lines)) = after

\* After-options lines given first, the before-message line last.
C10_Witness ==
    /\ out.op = "ErrorLines" /\ ~out.panic
    /\ Len(calls) = 3
    /\ calls[1].op = "afterOptions" /\ calls[2].op = "betweenMessageAndOptions"
    /\ calls[3].op = "beforeMessage"
    /\ out.lines = <<"L0", "M", "L1", "L2", "L3">>

(***************************************************************************)
(* C11: ErrorLines holds one message line, right after the before-message  *)
(* lines, chosen by four cases: message and wrapped error both set give    *)
(* "<message>: <wrapped.Error()>", the message alone gives the message,    *)
(* the wrapped error alone gives its Error() text, and neither gives the   *)
(* placeholder "error without message or wrapped error"; the result is     *)
(* never empty.                                                            *)
(***************************************************************************)
\* What Error() of the wrapped foreign error returns.
WrappedText == Head(e.err).text

C11_MessageLine ==
    out.op = "ErrorLines" =>
        LET n == Len(Appended("beforeMessage")) IN
        /\ ~out.panic
        /\ out.lines # <<>>
        /\ Len(out.lines) > n
        /\ (e.msg # "" /\ e.err # <<>>) =>
              out.lines[n + 1] = e.msg \o ": " \o WrappedText
        /\ (e.msg # "" /\ e.err = <<>>) => out.lines[n + 1] = e.msg
        /\ (e.msg = "" /\ e.err # <<>>) => out.lines[n + 1] = WrappedText
        /\ (e.msg = "" /\ e.err = <<>>) =>
              out.lines[n + 1] = "error without message or wrapped error"

\* A message set on an error that wraps another, after a before-message line.
C11_Witness ==
    /\ out.op = "ErrorLines"
    /\ e.msg = "M" /\ e.err = <<plainError>>
    /\ out.lines = <<"L0", "M: p">>

\* Neither a message nor a wrapped error: the placeholder alone.
C11_Placeholder ==
    /\ out.op = "ErrorLines"
    /\ e.msg = "" /\ e.err = <<>>
    /\ out.lines = <<"error without message or wrapped error">>

(***************************************************************************)
(* C12: with no option tokens the option renderer returns no line at all,  *)
(* whatever annotations were registered: ErrorLines is the before-message  *)
(* lines, the message line and the between lines, followed directly by the *)
(* after-options lines.                                                    *)
(***************************************************************************)
C12_NoTokensNoOptionLines ==
    (out.op = "ErrorLines" /\ e.options = <<>>) =>
        LET before == Appended("beforeMessage")
            between == Appended("betweenMessageAndOptions")
            after == Appended("afterOptions")
        IN  /\ ~out.panic
            /\ Len(out.lines) > Len(before)
            /\ out.lines = before \o <<out.lines[Len(before) + 1]>>
                              \o between \o after
            /\ \A tc \in Toolchains :
                  optionLines(e.options, e.optionComments, tc).lines = <<>>

\* An annotation registered, no token, a between line and an after line.
C12_Witness ==
    /\ out.op = "ErrorLines"
    /\ e.options = <<>>
    /\ e.optionComments # <<>>
    /\ out.lines = <<"M", "L0", "L1">>
    /\ e.betweenMessageAndOptions = <<"L0">>
    /\ e.afterOptions = <<"L1">>

(***************************************************************************)
(* C13 as stated: once an Error has a wrap target, no later setter call    *)
(* changes what Unwrap returns.                                            *)
(***************************************************************************)
\* A constructor empties the histories, so a step that keeps a non-empty
\* history is a setter call on the same value.
SameValue == lastExitCode # <<>> /\ lastExitCode' = lastExitCode

\* A call of a setter of SpecWrap other than WithWrap.
OtherSetterCall ==
    \/ \E code \in Codes : WithExitCode(code)
    \/ \E temporary \in BOOLEAN : WithTemporary(temporary)
    \/ \E msg \in Messages : WithMessage(msg)
    \/ \E options \in {<<>>, <<"a">>} : WithOptions(options)
    \/ \E line \in LineTexts : WithLineAfterOptions(line)

SetterCall == OtherSetterCall \/ \E err \in WrapTargets : WithWrap(err)

C13_Original ==
    [][(~e.nil /\ Unwrap(e) # <<>> /\ SameValue /\ SetterCall)
          => Unwrap(e)' = Unwrap(e)]_vars

(***************************************************************************)
(* C13: on a non-nil Error, every setter other than WithWrap leaves what   *)
(* Unwrap returns unchanged, and WithWrap(err) makes it err, whether or    *)
(* not a wrap target was set before, and changes nothing else.             *)
(***************************************************************************)
C13_OnlyWithWrapRewraps ==
    [][~e.nil =>
        /\ OtherSetterCall => Unwrap(e)' = Unwrap(e)
        /\ \A err \in WrapTargets :
              WithWrap(err) =>
                  /\ Unwrap(e)' = err
                  /\ e' = [e EXCEPT !.err = err]]_vars

\* Unwrap returns plainError after MaybeWrap, WithExitCode and WithWrap in
\* some order; the witness is reached by re-wrapping too.
C13_Witness ==
    /\ ctor = "MaybeWrap"
    /\ ~e.nil
    /\ lastExitCode # <<>>
    /\ e.isExitCodeSet
    /\ out = [op |-> "Unwrap", ret |-> <<plainError>>]

(***************************************************************************)
(* C14: on every acyclic wrap chain the walk of unwrapExitCode and of      *)
(* unwrapTemporary ends: each iteration returns or goes on with the        *)
(* unwrap target, no place of the chain is visited twice, the unwrap       *)
(* steps are at most as many as the chain is long, and the walk returns,   *)
(* with the value the resolver has for the chain.                          *)
(***************************************************************************)
NoRepeat(s) == \A i, j \in 1..Len(s) : i # j => s[i] # s[j]

WalkBounded ==
    /\ loc.unwraps <= Len(loc.chain)
    /\ loc.at <= Len(loc.chain) + 1
    /\ NoRepeat(loc.visited)
    /\ pc = "for" => ENABLED NextWalk
    /\ pc = "return" =>
          ret = IF loc.resolver = "unwrapExitCode"
                THEN unwrapExitCode(loc.chain)
                ELSE unwrapTemporary(loc.chain)

C14_WalkTerminates == []WalkBounded /\ <>(pc = "return")

\* A chain of MaxDepth errors that only have Unwrap, walked to its end.
C14_Witness ==
    /\ pc = "return"
    /\ Len(loc.chain) = MaxDepth
    /\ loc.unwraps = MaxDepth
    /\ loc.visited = [i \in 1..(MaxDepth + 1) |-> i]

(***************************************************************************)
(* C15: for every non-nil Error, whatever setters were called and whatever *)
(* it wraps, the free function ExitCode gives what the method ExitCode     *)
(* gives, and the free function Temporary what the method Temporary gives. *)
(***************************************************************************)
C15_FunctionIsMethod ==
    ~e.nil =>
        /\ ExitCode(AsError(e)) = ErrorExitCode(e)
        /\ Temporary(AsError(e)) = ErrorTemporary(e)

=============================================================================
